---------------------------- MODULE Spec2Model ----------------------------
(***************************************************************************)
(* Tic-tac-toe: the rules engine (src/src/game_logic.py), the minimax      *)
(* search (src/src/ai_player.py) and the turn-taking orchestrator          *)
(* (src/src/project.py, class TicTacToeApp).                               *)
(*                                                                         *)
(* Two specifications share the variables:                                 *)
(*   Spec    one game, from the state after construction, driven by cell   *)
(*           clicks and timer callbacks;                                   *)
(*   FnSpec  one call of one function of the rules engine or the search    *)
(*           on an arbitrary grid over {" ", "X", "O"}.                    *)
(***************************************************************************)
EXTENDS Integers, Sequences, FiniteSets, TLC

(***************************************************************************)
(* Program constants.                                                      *)
(***************************************************************************)
N == 3
\* Mutant of AI_PLAYER: the digit zero for the letter O.
AI_PLAYER_zero == "0"

AI_PLAYER == "O"
HUMAN_PLAYER == "X"
EMPTY == " "
None == "None"
\* get_ai_move's None (Optional[Tuple[int, int]]): no coordinate pair.
NoMove == <<>>
\* float("inf"): any integer above every score stands for it.
Inf == 1000
WIN_SCORE == 10
DRAW_SCORE == 0

(***************************************************************************)
(* Bounds of the model.                                                    *)
(***************************************************************************)
\* FnSpec searches (minimax, get_ai_move) the grids with at most MaxEmpty
\* empty cells; the empty grid is searched by get_ai_move as well.
MaxEmpty == 4

Idx == 0 .. (N - 1)
Marks == {EMPTY, HUMAN_PLAYER, AI_PLAYER}
Grids == [Idx -> [Idx -> Marks]]

(***************************************************************************)
(* game_logic.py                                                           *)
(***************************************************************************)
create_board == [r \in Idx |-> [c \in Idx |-> EMPTY]]

\* Mutant of check_winner: the anti-diagonal test repeats the main diagonal.
check_winner_one_diagonal(board, player) ==
    \/ \E row \in Idx : \A col \in Idx : board[row][col] = player
    \/ \E col \in Idx : \A row \in Idx : board[row][col] = player
    \/ \A i \in Idx : board[i][i] = player

check_winner(board, player) ==
    \/ \E row \in Idx : \A col \in Idx : board[row][col] = player
    \/ \E col \in Idx : \A row \in Idx : board[row][col] = player
    \/ \A i \in Idx : board[i][i] = player
    \/ \A i \in Idx : board[i][2 - i] = player

\* Mutant of is_board_full: any() for all().
is_board_full_any_row(board) ==
    \E row \in Idx : EMPTY \notin {board[row][col] : col \in Idx}

is_board_full(board) ==
    \A row \in Idx : EMPTY \notin {board[row][col] : col \in Idx}

\* The order in which the nested enumerate loops visit the cells.
ScanOrder == [k \in 1 .. N * N |-> <<(k - 1) \div N, (k - 1) % N>>]

\* Mutant of get_available_moves: the loops nested the other way round.
get_available_moves_by_column(board) ==
    SelectSeq([k \in 1 .. N * N |-> <<(k - 1) % N, (k - 1) \div N>>],
              LAMBDA m : board[m[1]][m[2]] = EMPTY)

get_available_moves(board) ==
    SelectSeq(ScanOrder, LAMBDA m : board[m[1]][m[2]] = EMPTY)

(***************************************************************************)
(* ai_player.py.  The search writes into the caller's grid and restores    *)
(* it, so minimax and get_ai_move yield the grid as they leave it next to  *)
(* the value they return.                                                  *)
(***************************************************************************)
\* board[row][col] = mark
SetCell(board, row, col, mark) == [board EXCEPT ![row][col] = mark]

\* Mutant of CancelMove: the move is not cancelled.
CancelMove_forgotten(board, row, col) == board

\* board[row][col] = " "  # Canceling the move.
CancelMove(board, row, col) == SetCell(board, row, col, EMPTY)

\* Mutant of Improves: the minimizing branch copied from the maximizing one
\* with max() left in place.
Improves_max_in_both(score, best_score, is_maximizing) == score > best_score

\* best_score = max(score, best_score) / min(score, best_score)
Improves(score, best_score, is_maximizing) ==
    IF is_maximizing THEN score > best_score ELSE score < best_score

RECURSIVE minimax(_, _)
RECURSIVE MinimaxLoop(_, _, _, _, _)

\* The for loop of either branch of minimax, from the i-th available move.
MinimaxLoop(board, is_maximizing, moves, i, best_score) ==
    IF i > Len(moves)
    THEN [score |-> best_score, board |-> board]
    ELSE LET row == moves[i][1]
             col == moves[i][2]
             mark == IF is_maximizing THEN AI_PLAYER ELSE HUMAN_PLAYER
             res == minimax(SetCell(board, row, col, mark), ~is_maximizing)
         IN IF Improves(res.score, best_score, is_maximizing)
            THEN MinimaxLoop(CancelMove(res.board, row, col), is_maximizing,
                             moves, i + 1, res.score)
            ELSE MinimaxLoop(CancelMove(res.board, row, col), is_maximizing,
                             moves, i + 1, best_score)

\* Mutant of minimax: fullness tested before the lines.
minimax_full_first(board, is_maximizing) ==
    IF is_board_full(board)
    THEN [score |-> DRAW_SCORE, board |-> board]
    ELSE IF check_winner(board, AI_PLAYER)
    THEN [score |-> WIN_SCORE, board |-> board]
    ELSE IF check_winner(board, HUMAN_PLAYER)
    THEN [score |-> -WIN_SCORE, board |-> board]
    ELSE MinimaxLoop(board, is_maximizing, get_available_moves(board), 1,
                     IF is_maximizing THEN -Inf ELSE Inf)

\* Mutant of minimax: the test for a full board is missing.
minimax_no_full_test(board, is_maximizing) ==
    IF check_winner(board, AI_PLAYER)
    THEN [score |-> WIN_SCORE, board |-> board]
    ELSE IF check_winner(board, HUMAN_PLAYER)
    THEN [score |-> -WIN_SCORE, board |-> board]
    ELSE MinimaxLoop(board, is_maximizing, get_available_moves(board), 1,
                     IF is_maximizing THEN -Inf ELSE Inf)

minimax(board, is_maximizing) ==
    IF check_winner(board, AI_PLAYER)
    THEN [score |-> WIN_SCORE, board |-> board]
    ELSE IF check_winner(board, HUMAN_PLAYER)
    THEN [score |-> -WIN_SCORE, board |-> board]
    ELSE IF is_board_full(board)
    THEN [score |-> DRAW_SCORE, board |-> board]
    ELSE MinimaxLoop(board, is_maximizing, get_available_moves(board), 1,
                     IF is_maximizing THEN -Inf ELSE Inf)

RECURSIVE GetAiMoveLoop(_, _, _, _, _)

\* Mutant of GetAiMoveLoop: >= for >, the last of equal scores wins.
GetAiMoveLoop_last_tie(board, moves, i, best_score, best_move) ==
    IF i > Len(moves)
    THEN [move |-> best_move, board |-> board]
    ELSE LET row == moves[i][1]
             col == moves[i][2]
             res == minimax(SetCell(board, row, col, AI_PLAYER), FALSE)
         IN IF res.score >= best_score
            THEN GetAiMoveLoop(CancelMove(res.board, row, col), moves, i + 1,
                               res.score, <<row, col>>)
            ELSE GetAiMoveLoop(CancelMove(res.board, row, col), moves, i + 1,
                               best_score, best_move)

\* Mutant of GetAiMoveLoop: the provisional "O" is not removed.
GetAiMoveLoop_no_cancel(board, moves, i, best_score, best_move) ==
    IF i > Len(moves)
    THEN [move |-> best_move, board |-> board]
    ELSE LET row == moves[i][1]
             col == moves[i][2]
             res == minimax(SetCell(board, row, col, AI_PLAYER), FALSE)
         IN IF res.score > best_score
            THEN GetAiMoveLoop(res.board, moves, i + 1, res.score,
                               <<row, col>>)
            ELSE GetAiMoveLoop(res.board, moves, i + 1, best_score, best_move)

\* The for loop of get_ai_move, from the i-th available move.
GetAiMoveLoop(board, moves, i, best_score, best_move) ==
    IF i > Len(moves)
    THEN [move |-> best_move, board |-> board]
    ELSE LET row == moves[i][1]
             col == moves[i][2]
             res == minimax(SetCell(board, row, col, AI_PLAYER), FALSE)
         IN IF res.score > best_score
            THEN GetAiMoveLoop(CancelMove(res.board, row, col), moves, i + 1,
                               res.score, <<row, col>>)
            ELSE GetAiMoveLoop(CancelMove(res.board, row, col), moves, i + 1,
                               best_score, best_move)

\* Mutant of get_ai_move: best_score starts at +infinity.
get_ai_move_inf_start(board) ==
    GetAiMoveLoop(board, get_available_moves(board), 1, Inf, NoMove)

\* Mutant of get_ai_move: best_score starts at the lowest score, not below it.
get_ai_move_lowest_score_start(board) ==
    GetAiMoveLoop(board, get_available_moves(board), 1, -WIN_SCORE, NoMove)

get_ai_move(board) ==
    GetAiMoveLoop(board, get_available_moves(board), 1, -Inf, NoMove)

\* The grids the search passes through.  MinimaxStaysIn: the grid that
\* minimax(board, is_maximizing) is entered with, and the grid each of its
\* recursive calls is entered with, are all in the set grids.
RECURSIVE MinimaxStaysIn(_, _, _)
MinimaxStaysIn(board, is_maximizing, grids) ==
    /\ board \in grids
    /\ IF check_winner(board, AI_PLAYER) THEN TRUE
       ELSE IF check_winner(board, HUMAN_PLAYER) THEN TRUE
       ELSE IF is_board_full(board) THEN TRUE
       ELSE LET moves == get_available_moves(board)
                mark == IF is_maximizing THEN AI_PLAYER ELSE HUMAN_PLAYER
            IN \A i \in 1 .. Len(moves) :
                  MinimaxStaysIn(SetCell(board, moves[i][1], moves[i][2], mark),
                                 ~is_maximizing, grids)

\* The same for get_ai_move(board): the grid it is called with and the
\* grid of every minimax call under it.
GetAiMoveStaysIn(board, grids) ==
    /\ board \in grids
    /\ LET moves == get_available_moves(board)
       IN \A i \in 1 .. Len(moves) :
             MinimaxStaysIn(SetCell(board, moves[i][1], moves[i][2], AI_PLAYER),
                            FALSE, grids)

(***************************************************************************)
(* State.                                                                  *)
(***************************************************************************)
VARIABLES
    board,           \* TicTacToeApp.board, or the grid handed to a function
    current_player,  \* TicTacToeApp.current_player
    game_over,       \* TicTacToeApp.game_over
    winner,          \* TicTacToeApp.winner
    timers,          \* pending set_timer callbacks, by callback name
    exited,          \* exit_game has run
    failed,          \* a handler raised (unpacking None in make_ai_move)
    op,              \* FnSpec: the function that was called, with its arguments
    entry,           \* FnSpec: the grid as it was when the function was called
    ret              \* FnSpec: what the function returned

vars == <<board, current_player, game_over, winner, timers, exited, failed,
          op, entry, ret>>

app == <<current_player, game_over, winner, timers, exited, failed>>

call == <<op, entry, ret>>

\* No function of FnSpec has been called.
NoCall ==
    /\ op = <<"none">>
    /\ entry = board
    /\ ret = NoMove

NoTimers == [make_ai_move |-> 0, exit_game |-> 0]

AppInit ==
    /\ current_player = HUMAN_PLAYER
    /\ game_over = FALSE
    /\ winner = None
    /\ timers = NoTimers
    /\ exited = FALSE
    /\ failed = FALSE

(***************************************************************************)
(* project.py: the orchestrator.                                           *)
(***************************************************************************)
\* self.set_timer(delay, callback)
set_timer(pending, callback) == [pending EXCEPT ![callback] = @ + 1]

\* Mutant of check_game_state: the draw branch assigns winner as well.
check_game_state_draw_names_winner(b, player, over, won, pending) ==
    IF check_winner(b, player)
    THEN [game_over |-> TRUE, winner |-> player,
          timers |-> set_timer(pending, "exit_game")]
    ELSE IF is_board_full(b)
    THEN [game_over |-> TRUE, winner |-> player,
          timers |-> set_timer(pending, "exit_game")]
    ELSE [game_over |-> over, winner |-> won, timers |-> pending]

\* Mutant of check_game_state: the line test names HUMAN_PLAYER, not the
\* current player.
check_game_state_human_only(b, player, over, won, pending) ==
    IF check_winner(b, HUMAN_PLAYER)
    THEN [game_over |-> TRUE, winner |-> player,
          timers |-> set_timer(pending, "exit_game")]
    ELSE IF is_board_full(b)
    THEN [game_over |-> TRUE, winner |-> won,
          timers |-> set_timer(pending, "exit_game")]
    ELSE [game_over |-> over, winner |-> won, timers |-> pending]

\* check_game_state, on the grid b with the app's current fields: the fields
\* it assigns.
check_game_state(b, player, over, won, pending) ==
    IF check_winner(b, player)
    THEN [game_over |-> TRUE, winner |-> player,
          timers |-> set_timer(pending, "exit_game")]
    ELSE IF is_board_full(b)
    THEN [game_over |-> TRUE, winner |-> won,
          timers |-> set_timer(pending, "exit_game")]
    ELSE [game_over |-> over, winner |-> won, timers |-> pending]

\* Mutant of on_tic_tac_toe_cell_clicked: the test of current_player is
\* missing.
on_tic_tac_toe_cell_clicked_any_turn(row, col) ==
    /\ ~exited
    /\ UNCHANGED <<exited, failed, call>>
    /\ IF game_over
       THEN UNCHANGED <<board, current_player, game_over, winner, timers>>
       ELSE IF board[row][col] = EMPTY
       THEN LET b == SetCell(board, row, col, HUMAN_PLAYER)
                st == check_game_state(b, current_player, game_over, winner,
                                       timers)
            IN /\ board' = b
               /\ game_over' = st.game_over
               /\ winner' = st.winner
               /\ IF ~st.game_over
                  THEN /\ current_player' = AI_PLAYER
                       /\ timers' = set_timer(st.timers, "make_ai_move")
                  ELSE /\ current_player' = current_player
                       /\ timers' = st.timers
       ELSE UNCHANGED <<board, current_player, game_over, winner, timers>>

\* Mutant of on_tic_tac_toe_cell_clicked: current_player is not handed
\* to the AI.
on_tic_tac_toe_cell_clicked_keeps_turn(row, col) ==
    /\ ~exited
    /\ UNCHANGED <<exited, failed, call>>
    /\ IF game_over \/ current_player # HUMAN_PLAYER
       THEN UNCHANGED <<board, current_player, game_over, winner, timers>>
       ELSE IF board[row][col] = EMPTY
       THEN LET b == SetCell(board, row, col, HUMAN_PLAYER)
                st == check_game_state(b, current_player, game_over, winner,
                                       timers)
            IN /\ board' = b
               /\ game_over' = st.game_over
               /\ winner' = st.winner
               /\ IF ~st.game_over
                  THEN /\ current_player' = current_player
                       /\ timers' = set_timer(st.timers, "make_ai_move")
                  ELSE /\ current_player' = current_player
                       /\ timers' = st.timers
       ELSE UNCHANGED <<board, current_player, game_over, winner, timers>>

\* Mutant of on_tic_tac_toe_cell_clicked: the AI move is scheduled
\* whether or not the game is over.
on_tic_tac_toe_cell_clicked_always_schedules(row, col) ==
    /\ ~exited
    /\ UNCHANGED <<exited, failed, call>>
    /\ IF game_over \/ current_player # HUMAN_PLAYER
       THEN UNCHANGED <<board, current_player, game_over, winner, timers>>
       ELSE IF board[row][col] = EMPTY
       THEN LET b == SetCell(board, row, col, HUMAN_PLAYER)
                st == check_game_state(b, current_player, game_over, winner,
                                       timers)
            IN /\ board' = b
               /\ game_over' = st.game_over
               /\ winner' = st.winner
               /\ IF TRUE
                  THEN /\ current_player' = AI_PLAYER
                       /\ timers' = set_timer(st.timers, "make_ai_move")
                  ELSE /\ current_player' = current_player
                       /\ timers' = st.timers
       ELSE UNCHANGED <<board, current_player, game_over, winner, timers>>

\* Mutant of on_tic_tac_toe_cell_clicked: the clicked cell is not tested
\* for being empty.
on_tic_tac_toe_cell_clicked_any_cell(row, col) ==
    /\ ~exited
    /\ UNCHANGED <<exited, failed, call>>
    /\ IF game_over \/ current_player # HUMAN_PLAYER
       THEN UNCHANGED <<board, current_player, game_over, winner, timers>>
       ELSE IF TRUE
       THEN LET b == SetCell(board, row, col, HUMAN_PLAYER)
                st == check_game_state(b, current_player, game_over, winner,
                                       timers)
            IN /\ board' = b
               /\ game_over' = st.game_over
               /\ winner' = st.winner
               /\ IF ~st.game_over
                  THEN /\ current_player' = AI_PLAYER
                       /\ timers' = set_timer(st.timers, "make_ai_move")
                  ELSE /\ current_player' = current_player
                       /\ timers' = st.timers
       ELSE UNCHANGED <<board, current_player, game_over, winner, timers>>

\* Mutant of on_tic_tac_toe_cell_clicked: the turn passes but no AI move is
\* scheduled.
on_tic_tac_toe_cell_clicked_no_timer(row, col) ==
    /\ ~exited
    /\ UNCHANGED <<exited, failed, call>>
    /\ IF game_over \/ current_player # HUMAN_PLAYER
       THEN UNCHANGED <<board, current_player, game_over, winner, timers>>
       ELSE IF board[row][col] = EMPTY
       THEN LET b == SetCell(board, row, col, HUMAN_PLAYER)
                st == check_game_state(b, current_player, game_over, winner,
                                       timers)
            IN /\ board' = b
               /\ game_over' = st.game_over
               /\ winner' = st.winner
               /\ IF ~st.game_over
                  THEN /\ current_player' = AI_PLAYER
                       /\ timers' = st.timers
                  ELSE /\ current_player' = current_player
                       /\ timers' = st.timers
       ELSE UNCHANGED <<board, current_player, game_over, winner, timers>>

on_tic_tac_toe_cell_clicked(row, col) ==
    /\ ~exited
    /\ UNCHANGED <<exited, failed, call>>
    /\ IF game_over \/ current_player # HUMAN_PLAYER
       THEN UNCHANGED <<board, current_player, game_over, winner, timers>>
       ELSE IF board[row][col] = EMPTY
       THEN LET b == SetCell(board, row, col, HUMAN_PLAYER)
                st == check_game_state(b, current_player, game_over, winner,
                                       timers)
            IN /\ board' = b
               /\ game_over' = st.game_over
               /\ winner' = st.winner
               /\ IF ~st.game_over
                  THEN /\ current_player' = AI_PLAYER
                       /\ timers' = set_timer(st.timers, "make_ai_move")
                  ELSE /\ current_player' = current_player
                       /\ timers' = st.timers
       ELSE UNCHANGED <<board, current_player, game_over, winner, timers>>

\* Mutant of make_ai_move: the turn is not handed back to the human.
make_ai_move_keeps_turn ==
    /\ ~exited
    /\ timers.make_ai_move > 0
    /\ UNCHANGED <<exited, call>>
    /\ \E found \in {get_ai_move(board)} :
       LET fired == [timers EXCEPT !.make_ai_move = @ - 1]
       IN IF found.move = NoMove
          THEN \* row, col = None raises TypeError: the callback ends here
               /\ failed' = TRUE
               /\ board' = found.board
               /\ timers' = fired
               /\ UNCHANGED <<current_player, game_over, winner>>
          ELSE LET b == SetCell(found.board, found.move[1], found.move[2],
                                AI_PLAYER)
                   st == check_game_state(b, current_player, game_over,
                                          winner, fired)
               IN /\ board' = b
                  /\ game_over' = st.game_over
                  /\ winner' = st.winner
                  /\ timers' = st.timers
                  /\ current_player' = current_player
                  /\ UNCHANGED failed

make_ai_move ==
    /\ ~exited
    /\ timers.make_ai_move > 0
    /\ UNCHANGED <<exited, call>>
    /\ \E found \in {get_ai_move(board)} :
       LET fired == [timers EXCEPT !.make_ai_move = @ - 1]
       IN IF found.move = NoMove
          THEN \* row, col = None raises TypeError: the callback ends here
               /\ failed' = TRUE
               /\ board' = found.board
               /\ timers' = fired
               /\ UNCHANGED <<current_player, game_over, winner>>
          ELSE LET b == SetCell(found.board, found.move[1], found.move[2],
                                AI_PLAYER)
                   st == check_game_state(b, current_player, game_over,
                                          winner, fired)
               IN /\ board' = b
                  /\ game_over' = st.game_over
                  /\ winner' = st.winner
                  /\ timers' = st.timers
                  /\ current_player' = IF ~st.game_over THEN HUMAN_PLAYER
                                       ELSE current_player
                  /\ UNCHANGED failed

exit_game ==
    /\ ~exited
    /\ timers.exit_game > 0
    /\ exited' = TRUE
    /\ timers' = [timers EXCEPT !.exit_game = @ - 1]
    /\ UNCHANGED <<board, current_player, game_over, winner, failed, call>>

Init ==
    /\ board = create_board
    /\ AppInit
    /\ NoCall

Next ==
    \/ \E row \in Idx, col \in Idx : on_tic_tac_toe_cell_clicked(row, col)
    \/ make_ai_move
    \/ exit_game

Spec == Init /\ [][Next]_vars

(***************************************************************************)
(* LiveSpec: the game with its scheduling.  set_timer(1.0, make_ai_move)   *)
(* makes every scheduled AI move fire, and the human at the keyboard keeps *)
(* clicking some empty cell while it is their turn.                        *)
(*                                                                         *)
(* The firing of the timer is named by what it does to the state: one      *)
(* pending make_ai_move fewer and one more AI mark on the board (the board *)
(* has an empty cell whenever the timer is pending).  The steps of Next    *)
(* that do this are the make_ai_move steps, and it can happen exactly when *)
(* make_ai_move can; stated this way, whether it can happen is decided     *)
(* without running the search.                                             *)
(***************************************************************************)
AiMoveTimerFires ==
    /\ ~exited
    /\ timers.make_ai_move > 0
    /\ \E row \in Idx, col \in Idx :
          /\ board[row][col] = EMPTY
          /\ board' = SetCell(board, row, col, AI_PLAYER)
    /\ LET fired == [timers EXCEPT !.make_ai_move = @ - 1]
       IN timers' \in {fired, set_timer(fired, "exit_game")}
    /\ game_over' \in BOOLEAN
    /\ winner' \in {winner, current_player}
    /\ current_player' \in {current_player, HUMAN_PLAYER}
    /\ UNCHANGED <<exited, failed, call>>

HumanClicksEmpty ==
    \E row \in Idx, col \in Idx :
        /\ board[row][col] = EMPTY
        /\ on_tic_tac_toe_cell_clicked(row, col)

LiveSpec ==
    /\ Spec
    /\ WF_vars(AiMoveTimerFires)
    /\ WF_vars(HumanClicksEmpty)

(***************************************************************************)
(* FnSpec: one call of one function on one grid.  The grid is any grid     *)
(* over the three marks, whether or not play can reach it.                 *)
(***************************************************************************)
\* The grids minimax is called on: those it searches at most MaxEmpty deep
\* and those on which it returns at its first two tests.
MinimaxInput(b) ==
    IF Len(get_available_moves(b)) <= MaxEmpty THEN TRUE
    ELSE IF check_winner(b, AI_PLAYER) THEN TRUE
    ELSE check_winner(b, HUMAN_PLAYER)

\* The grids get_ai_move is called on.
GetAiMoveInput(b) ==
    IF Len(get_available_moves(b)) <= MaxEmpty THEN TRUE
    ELSE b = create_board

call_check_winner(player) ==
    /\ op = <<"none">>
    /\ op' = <<"check_winner", player>>
    /\ entry' = board
    /\ ret' = check_winner(board, player)
    /\ UNCHANGED <<board, app>>

call_is_board_full ==
    /\ op = <<"none">>
    /\ op' = <<"is_board_full">>
    /\ entry' = board
    /\ ret' = is_board_full(board)
    /\ UNCHANGED <<board, app>>

call_get_available_moves ==
    /\ op = <<"none">>
    /\ op' = <<"get_available_moves">>
    /\ entry' = board
    /\ ret' = get_available_moves(board)
    /\ UNCHANGED <<board, app>>

call_minimax(is_maximizing) ==
    /\ op = <<"none">>
    /\ MinimaxInput(board)
    /\ op' = <<"minimax", is_maximizing>>
    /\ entry' = board
    /\ \E res \in {minimax(board, is_maximizing)} :
          /\ ret' = res.score
          /\ board' = res.board
    /\ UNCHANGED app

call_get_ai_move ==
    /\ op = <<"none">>
    /\ GetAiMoveInput(board)
    /\ op' = <<"get_ai_move">>
    /\ entry' = board
    /\ \E found \in {get_ai_move(board)} :
          /\ ret' = found.move
          /\ board' = found.board
    /\ UNCHANGED app

\* The grids get_ai_move is called on twice in a row.
GetAiMoveTwiceInput(b) == Len(get_available_moves(b)) < MaxEmpty

\* Two calls of get_ai_move in a row, the second on the grid as the first
\* left it.
call_get_ai_move_twice ==
    /\ op = <<"none">>
    /\ GetAiMoveTwiceInput(board)
    /\ op' = <<"get_ai_move_twice">>
    /\ entry' = board
    /\ \E first \in {get_ai_move(board)} :
       \E second \in {get_ai_move(first.board)} :
          /\ ret' = <<first.move, second.move>>
          /\ board' = second.board
    /\ UNCHANGED app

FnInit ==
    /\ board \in Grids
    /\ AppInit
    /\ NoCall

FnNext ==
    \/ \E player \in {HUMAN_PLAYER, AI_PLAYER} : call_check_winner(player)
    \/ call_is_board_full
    \/ call_get_available_moves
    \/ \E is_maximizing \in BOOLEAN : call_minimax(is_maximizing)
    \/ call_get_ai_move
    \/ call_get_ai_move_twice

FnSpec == FnInit /\ [][FnNext]_vars

(***************************************************************************)
(* Vocabulary of the properties, stated without the program's functions.   *)
(***************************************************************************)
\* The eight lines of the grid, each the set of its three cells.
Lines ==
    {{<<r, 0>>, <<r, 1>>, <<r, 2>>} : r \in Idx}
        \cup {{<<0, c>>, <<1, c>>, <<2, c>>} : c \in Idx}
        \cup {{<<0, 0>>, <<1, 1>>, <<2, 2>>}, {<<0, 2>>, <<1, 1>>, <<2, 0>>}}

\* player holds all three cells of some line of b.
HasLine(b, player) ==
    \E line \in Lines : \A m \in line : b[m[1]][m[2]] = player

\* The empty cells of b.
EmptyCells(b) == {m \in Idx \X Idx : b[m[1]][m[2]] = EMPTY}

NumEmpty(b) == Cardinality(EmptyCells(b))

\* The number of cells of b that hold mark.
Count(b, mark) == Cardinality({m \in Idx \X Idx : b[m[1]][m[2]] = mark})

\* The position of a cell in row-major order.
RowMajor(m) == m[1] * N + m[2]

\* b with mark placed on cell m.
Place(b, m, mark) == [b EXCEPT ![m[1]][m[2]] = mark]

\* The empty cells of b on which mark would complete a line.
Completing(b, mark) == {m \in EmptyCells(b) : HasLine(Place(b, m, mark), mark)}

\* It is the AI's turn on b and neither player has a line.
AiToMove(b) ==
    /\ Count(b, HUMAN_PLAYER) = Count(b, AI_PLAYER) + 1
    /\ ~HasLine(b, HUMAN_PLAYER)
    /\ ~HasLine(b, AI_PLAYER)

\* The human has a strategy from b that completes a line of "X" whatever "O"
\* replies; human_turn says who moves next.
RECURSIVE HumanForcesWin(_, _)
HumanForcesWin(b, human_turn) ==
    IF HasLine(b, HUMAN_PLAYER) THEN TRUE
    ELSE IF HasLine(b, AI_PLAYER) \/ EmptyCells(b) = {} THEN FALSE
    ELSE IF human_turn
    THEN \E m \in EmptyCells(b) :
            HumanForcesWin(Place(b, m, HUMAN_PLAYER), FALSE)
    ELSE \A m \in EmptyCells(b) :
            HumanForcesWin(Place(b, m, AI_PLAYER), TRUE)

Called(name) == op[1] = name

(***************************************************************************)
(* C1.  In a game from the initial state, whatever cells the human clicks, *)
(* no reachable state has a completed line of "X" and the winner is never  *)
(* HUMAN_PLAYER.                                                           *)
(***************************************************************************)
C1_HumanNeverWins ==
    /\ ~HasLine(board, HUMAN_PLAYER)
    /\ winner # HUMAN_PLAYER

\* A game played to its end in which the human had two marks in a line with
\* the third cell taken by the AI.
C1_Witness ==
    /\ game_over
    /\ Count(board, HUMAN_PLAYER) >= 3
    /\ \E line \in Lines :
          /\ Cardinality({m \in line : board[m[1]][m[2]] = HUMAN_PLAYER}) = 2
          /\ \E m \in line : board[m[1]][m[2]] = AI_PLAYER

(***************************************************************************)
(* C2.  On the empty board get_ai_move returns a cell, and with "O" placed *)
(* there and the human to move, the human has no strategy that forces a    *)
(* completed line of "X".                                                  *)
(***************************************************************************)
C2_EmptyBoardMoveIsSafe ==
    (Called("get_ai_move") /\ entry = create_board) =>
        /\ ret \in Idx \X Idx
        /\ ~HumanForcesWin(Place(create_board, ret, AI_PLAYER), TRUE)

C2_Witness ==
    /\ Called("get_ai_move")
    /\ entry = create_board
    /\ ret \in Idx \X Idx

(***************************************************************************)
(* C3.  After minimax(board, is_maximizing) returns, and after             *)
(* get_ai_move(board) returns, the board is cell for cell what it was on   *)
(* entry.                                                                  *)
(***************************************************************************)
C3_SearchRestoresBoard ==
    (Called("minimax") \/ Called("get_ai_move")) =>
        \A row \in Idx : \A col \in Idx : board[row][col] = entry[row][col]

\* A minimax call that searched at least three plies deep.
C3_Witness ==
    /\ Called("minimax")
    /\ NumEmpty(entry) >= 3
    /\ ~HasLine(entry, HUMAN_PLAYER)
    /\ ~HasLine(entry, AI_PLAYER)
    /\ board = entry

(***************************************************************************)
(* C4.  On every board with no completed line on which it is the AI's turn *)
(* and some empty cell would complete a line of "O", get_ai_move returns a *)
(* cell that completes a line of "O" immediately.                          *)
(***************************************************************************)
C4_TakesImmediateWin ==
    (/\ Called("get_ai_move")
     /\ AiToMove(entry)
     /\ Completing(entry, AI_PLAYER) # {}) =>
        ret \in Completing(entry, AI_PLAYER)

(***************************************************************************)
(* C5.  On every board with no completed line on which it is the AI's      *)
(* turn, no empty cell completes a line of "O" and some empty cell would   *)
(* complete a line of "X", get_ai_move returns a cell that would have      *)
(* completed a line of "X".                                                *)
(***************************************************************************)
C5_BlocksImmediateLoss ==
    (/\ Called("get_ai_move")
     /\ AiToMove(entry)
     /\ Completing(entry, AI_PLAYER) = {}
     /\ Completing(entry, HUMAN_PLAYER) # {}) =>
        ret \in Completing(entry, HUMAN_PLAYER)

(***************************************************************************)
(* C6.  get_available_moves returns exactly the coordinates whose cell is  *)
(* " ", each once, in row-major order, and the length of the result plus   *)
(* the number of non-empty cells is 9.                                     *)
(***************************************************************************)
C6_AvailableMovesExact ==
    Called("get_available_moves") =>
        /\ \A i \in 1 .. Len(ret) : ret[i] \in EmptyCells(entry)
        /\ \A m \in EmptyCells(entry) : \E i \in 1 .. Len(ret) : ret[i] = m
        /\ \A i \in 1 .. Len(ret) : \A j \in 1 .. Len(ret) :
              i < j => RowMajor(ret[i]) < RowMajor(ret[j])
        /\ Len(ret) + Count(entry, HUMAN_PLAYER) + Count(entry, AI_PLAYER)
              = N * N

\* Empty cells in the second column of an upper row and the first column of
\* a lower row: row-major and column-major order differ.
C6_Witness ==
    /\ Called("get_available_moves")
    /\ Len(ret) = 3
    /\ ret[1] = <<0, 1>>
    /\ ret[2] = <<1, 0>>
    /\ ret[3] = <<2, 2>>

(***************************************************************************)
(* C7.  check_winner(board, player) is true if and only if player holds    *)
(* all three cells of at least one of the eight lines, and it does not     *)
(* depend on the other player's marks.                                     *)
(***************************************************************************)
OtherPlayer(player) == IF player = HUMAN_PLAYER THEN AI_PLAYER ELSE HUMAN_PLAYER

\* b with every mark of player removed.
Without(b, player) ==
    [r \in Idx |-> [c \in Idx |-> IF b[r][c] = player THEN EMPTY ELSE b[r][c]]]

C7_CheckWinnerIffLine ==
    Called("check_winner") =>
        /\ ret = HasLine(entry, op[2])
        /\ ret = check_winner(Without(entry, OtherPlayer(op[2])), op[2])

\* The anti-diagonal alone wins, with the other player's marks on the board.
C7_Witness ==
    /\ Called("check_winner")
    /\ op[2] = HUMAN_PLAYER
    /\ ret = TRUE
    /\ \A r \in Idx : \A c \in Idx :
          entry[r][c] = (IF r + c = 2 THEN HUMAN_PLAYER
                         ELSE IF r = 0 THEN AI_PLAYER ELSE EMPTY)

(***************************************************************************)
(* C8.  is_board_full(board) is true if and only if                        *)
(* get_available_moves(board) is empty.                                    *)
(***************************************************************************)
C8_FullIffNoMoves ==
    Called("is_board_full") =>
        (ret <=> (get_available_moves(entry) = <<>>))

C8_Witness ==
    /\ Called("is_board_full")
    /\ ret = TRUE
    /\ get_available_moves(entry) = <<>>

(***************************************************************************)
(* C9.  For both values of is_maximizing, minimax returns +10 on any board *)
(* where "O" has a completed line, otherwise -10 where "X" has a completed *)
(* line, otherwise 0 on a full board: a full board with a completed line   *)
(* scores +10 or -10, never 0.                                             *)
(***************************************************************************)
C9_TerminalScoring ==
    Called("minimax") =>
        /\ HasLine(entry, AI_PLAYER) => ret = 10
        /\ (~HasLine(entry, AI_PLAYER) /\ HasLine(entry, HUMAN_PLAYER)) =>
              ret = -10
        /\ (/\ ~HasLine(entry, AI_PLAYER)
            /\ ~HasLine(entry, HUMAN_PLAYER)
            /\ EmptyCells(entry) = {}) => ret = 0

\* A full board with a completed line of "X" only.
C9_Witness ==
    /\ Called("minimax")
    /\ EmptyCells(entry) = {}
    /\ HasLine(entry, HUMAN_PLAYER)
    /\ ~HasLine(entry, AI_PLAYER)
    /\ ret = -10

(***************************************************************************)
(* C10.  On every board with at least one empty cell, get_ai_move returns  *)
(* the row-major-first cell among the empty cells whose score, minimax of  *)
(* the board with "O" placed there and is_maximizing = False, is the       *)
(* maximum over all empty cells.                                           *)
(***************************************************************************)
\* The score of the empty cell m of b.
CellScore(b, m) == minimax(Place(b, m, AI_PLAYER), FALSE).score

\* The empty cells of b of maximal score.
BestCells(b) ==
    LET scored == {<<m, CellScore(b, m)>> : m \in EmptyCells(b)}
    IN {p[1] : p \in {q \in scored : \A other \in scored : other[2] <= q[2]}}

C10_FirstBestCell ==
    (Called("get_ai_move") /\ EmptyCells(entry) # {}) =>
        \A best \in {BestCells(entry)} :
            /\ ret \in best
            /\ \A m \in best : RowMajor(ret) <= RowMajor(m)

\* A tie between best cells, the first empty cell not among them.
C10_Witness ==
    /\ Called("get_ai_move")
    /\ NumEmpty(entry) >= 3
    /\ Cardinality(BestCells(entry)) >= 2
    /\ \E m \in EmptyCells(entry) : RowMajor(m) < RowMajor(ret)

(***************************************************************************)
(* C11.  get_ai_move returns None if and only if the board has no empty    *)
(* cell; on every board with at least one empty cell, also one with a      *)
(* completed line, it returns the coordinates of a cell that is empty on   *)
(* that board.                                                             *)
(***************************************************************************)
C11_NoneIffNoEmptyCell ==
    Called("get_ai_move") =>
        /\ (ret = NoMove) <=> (EmptyCells(entry) = {})
        /\ EmptyCells(entry) # {} => ret \in EmptyCells(entry)

\* A board that is lost for "O" whatever it plays, with a completed line of
\* "X" already on it.
C11_Witness ==
    /\ Called("get_ai_move")
    /\ HasLine(entry, HUMAN_PLAYER)
    /\ NumEmpty(entry) >= 2
    /\ ret \in EmptyCells(entry)

(***************************************************************************)
(* C12.  For both values of is_maximizing minimax returns -10, 0 or +10:   *)
(* the initial accumulators -infinity and +infinity are never returned, by *)
(* the call or by any recursive call (each recursive call is a call on a   *)
(* grid with fewer empty cells, and every such grid is called on).         *)
(***************************************************************************)
C12_ScoreRange ==
    Called("minimax") => ret \in {-10, 0, 10}

\* A search of at least three plies that ends in a draw.
C12_Witness ==
    /\ Called("minimax")
    /\ NumEmpty(entry) >= 3
    /\ ~HasLine(entry, HUMAN_PLAYER)
    /\ ~HasLine(entry, AI_PLAYER)
    /\ ret = 0

(***************************************************************************)
(* C18.  Two calls of get_ai_move in a row on the same board, the caller   *)
(* changing nothing in between, return the same move.                      *)
(***************************************************************************)
C18_SameMoveTwice ==
    Called("get_ai_move_twice") => ret[1] = ret[2]

C18_Witness ==
    /\ Called("get_ai_move_twice")
    /\ NumEmpty(entry) >= 3
    /\ ret[1] \in EmptyCells(entry)
    /\ ret[2] = ret[1]

(***************************************************************************)
(* C13.  A cell click is a no-op whenever game_over is true, or            *)
(* current_player is not HUMAN_PLAYER, or the clicked cell is not empty:   *)
(* the board, current_player, game_over and winner are unchanged and no AI *)
(* move is scheduled, so a click that arrives while an AI move is pending  *)
(* does not alter the board the AI will search.                            *)
(***************************************************************************)
C13_IgnoredClickIsNoOp ==
    [][\A row \in Idx : \A col \in Idx :
          (/\ on_tic_tac_toe_cell_clicked(row, col)
           /\ (\/ game_over
               \/ current_player # HUMAN_PLAYER
               \/ board[row][col] # EMPTY)) =>
              UNCHANGED <<board, current_player, game_over, winner, timers>>
      ]_vars

\* An AI move is pending and empty cells are there to be clicked.
C13_Witness ==
    /\ ~game_over
    /\ current_player = AI_PLAYER
    /\ timers.make_ai_move = 1
    /\ NumEmpty(board) = 6

(***************************************************************************)
(* C14.  In every reachable state of a game, game_over is true if and only *)
(* if the board has a completed line or is full; and when game_over is     *)
(* true, winner is "X" exactly when "X" has a completed line, "O" exactly  *)
(* when "O" has one, and None exactly when the board is full with no       *)
(* completed line.                                                         *)
(***************************************************************************)
C14_GameOverIffTerminal ==
    /\ game_over <=> (\/ HasLine(board, HUMAN_PLAYER)
                      \/ HasLine(board, AI_PLAYER)
                      \/ EmptyCells(board) = {})
    /\ game_over =>
          /\ (winner = HUMAN_PLAYER) <=> HasLine(board, HUMAN_PLAYER)
          /\ (winner = AI_PLAYER) <=> HasLine(board, AI_PLAYER)
          /\ (winner = None) <=> (/\ EmptyCells(board) = {}
                                  /\ ~HasLine(board, HUMAN_PLAYER)
                                  /\ ~HasLine(board, AI_PLAYER))

\* A draw: the human's fifth mark fills the board.
C14_Witness ==
    /\ game_over
    /\ winner = None
    /\ EmptyCells(board) = {}

(***************************************************************************)
(* C15.  After a human click on an empty cell that does not end the game,  *)
(* current_player is AI_PLAYER and exactly one AI move is pending; when it *)
(* fires the AI places exactly one "O" on a cell that was empty and,       *)
(* unless that ends the game, current_player is HUMAN_PLAYER again.        *)
(* Between two consecutive human placements there is exactly one AI        *)
(* placement: the marks are level before each human placement.             *)
(***************************************************************************)
HumanPlaces == Count(board', HUMAN_PLAYER) = Count(board, HUMAN_PLAYER) + 1

AiMoveFires == timers'.make_ai_move < timers.make_ai_move

C15_TurnHandOff ==
    [][/\ HumanPlaces =>
             /\ Count(board, HUMAN_PLAYER) = Count(board, AI_PLAYER)
             /\ ~game_over' => (/\ current_player' = AI_PLAYER
                                /\ timers'.make_ai_move = 1)
       /\ AiMoveFires =>
             /\ timers.make_ai_move = 1
             /\ timers'.make_ai_move = 0
             /\ \E m \in EmptyCells(board) : board' = Place(board, m, AI_PLAYER)
             /\ ~game_over' => current_player' = HUMAN_PLAYER
       /\ (~game_over /\ current_player = AI_PLAYER) =>
             timers.make_ai_move = 1
      ]_vars

\* Two rounds of click and reply, the turn back with the human.
C15_Witness ==
    /\ ~game_over
    /\ current_player = HUMAN_PLAYER
    /\ timers.make_ai_move = 0
    /\ Count(board, HUMAN_PLAYER) = 2
    /\ Count(board, AI_PLAYER) = 2

(***************************************************************************)
(* C16.  Every time make_ai_move runs, the board has at least one empty    *)
(* cell and no completed line for either player and game_over is false, so *)
(* get_ai_move does not return None there and the unpacking of its result  *)
(* never fails.                                                            *)
(***************************************************************************)
C16_AiMoveHasACell ==
    /\ timers.make_ai_move > 0 =>
          /\ ~game_over
          /\ EmptyCells(board) # {}
          /\ ~HasLine(board, HUMAN_PLAYER)
          /\ ~HasLine(board, AI_PLAYER)
    /\ ~failed

\* The last AI move of a game is pending: two cells are left.
C16_Witness ==
    /\ timers.make_ai_move > 0
    /\ NumEmpty(board) = 2
    /\ ~failed

(***************************************************************************)
(* C17.  No board reachable by legal play has completed lines for both     *)
(* players: in every state of a game, and on every board minimax visits    *)
(* while searching from such a state, check_winner(board, "X") and         *)
(* check_winner(board, "O") are never both true.                           *)
(***************************************************************************)
OneWinnerGrids ==
    {b \in Grids :
        ~(check_winner(b, HUMAN_PLAYER) /\ check_winner(b, AI_PLAYER))}

C17_NeverBothWin ==
    /\ board \in OneWinnerGrids
    /\ timers.make_ai_move > 0 => GetAiMoveStaysIn(board, OneWinnerGrids)

\* A search from six empty cells: it visits boards won by either player.
C17_Witness ==
    /\ timers.make_ai_move > 0
    /\ NumEmpty(board) = 6
    /\ Completing(board, HUMAN_PLAYER) # {}

(***************************************************************************)
(* C19.  In every reachable state of a game, and on every intermediate     *)
(* board of a minimax search, the grid has exactly 3 rows of exactly 3     *)
(* cells, each one of " ", "X", "O"; create_board returns such a grid with *)
(* all nine cells " ".                                                     *)
(***************************************************************************)
ThreeByThree == [{0, 1, 2} -> [{0, 1, 2} -> {" ", "X", "O"}]]

C19_GridShape ==
    /\ board \in ThreeByThree
    /\ timers.make_ai_move > 0 => GetAiMoveStaysIn(board, ThreeByThree)
    /\ create_board \in ThreeByThree
    /\ \A r \in {0, 1, 2} : \A c \in {0, 1, 2} : create_board[r][c] = " "

\* A search is about to start from a board that holds both marks.
C19_Witness ==
    /\ timers.make_ai_move > 0
    /\ Count(board, HUMAN_PLAYER) = 2
    /\ Count(board, AI_PLAYER) = 1

(***************************************************************************)
(* C20.  Every mark the orchestrator places lands on a cell that is empty  *)
(* at that moment, and once a cell holds "X" or "O" its value never        *)
(* changes for the rest of the game.                                       *)
(***************************************************************************)
C20_MarksArePermanent ==
    [][\A row \in Idx : \A col \in Idx :
          /\ board'[row][col] # board[row][col] => board[row][col] = EMPTY
          /\ board[row][col] # EMPTY => board'[row][col] = board[row][col]
      ]_vars

\* Both handlers have placed marks twice.
C20_Witness ==
    /\ Count(board, HUMAN_PLAYER) = 3
    /\ Count(board, AI_PLAYER) = 2

(***************************************************************************)
(* C21.  Mark-count parity: in every state of a game, count("X") minus     *)
(* count("O") is 0 or 1; if game_over is false and current_player is       *)
(* HUMAN_PLAYER the counts are equal, and if game_over is false and        *)
(* current_player is AI_PLAYER then count("X") = count("O") + 1.           *)
(***************************************************************************)
C21_MarkCountParity ==
    LET x == Count(board, HUMAN_PLAYER)
        o == Count(board, AI_PLAYER)
    IN /\ x - o \in {0, 1}
       /\ (~game_over /\ current_player = HUMAN_PLAYER) => x = o
       /\ (~game_over /\ current_player = AI_PLAYER) => x = o + 1

\* The AI is to reply to the human's fourth mark.
C21_Witness ==
    /\ ~game_over
    /\ current_player = AI_PLAYER
    /\ Count(board, HUMAN_PLAYER) = 4
    /\ Count(board, AI_PLAYER) = 3

(***************************************************************************)
(* C22.  Game over is final: once game_over is true no AI move is pending, *)
(* and the board, winner and game_over never change again under any click *)
(* or timer firing; the only step left is the exit.                        *)
(***************************************************************************)
C22_GameOverIsFinal ==
    /\ [](game_over => timers.make_ai_move = 0)
    /\ [][game_over =>
             /\ UNCHANGED <<board, winner, game_over>>
             /\ ~exited /\ exited'
         ]_vars

\* The AI has won with cells still empty: clicks on them are still possible.
C22_Witness ==
    /\ game_over
    /\ ~exited
    /\ winner = AI_PLAYER
    /\ NumEmpty(board) >= 2

(***************************************************************************)
(* C23.  Every game ends: a game holds at most 5 human placements and 4 AI *)
(* placements, no state has the game not over, the AI to move and no AI    *)
(* move pending, and, as long as the human keeps clicking some empty cell  *)
(* on their turn and every scheduled AI move fires, game_over eventually   *)
(* becomes true.                                                           *)
(***************************************************************************)
C23_EveryGameEnds ==
    /\ [](/\ Count(board, HUMAN_PLAYER) <= 5
          /\ Count(board, AI_PLAYER) <= 4
          /\ ~(/\ ~game_over
               /\ current_player = AI_PLAYER
               /\ timers.make_ai_move = 0))
    /\ <>game_over

\* The AI wins with its fourth and last possible mark.
C23_Witness ==
    /\ game_over
    /\ Count(board, HUMAN_PLAYER) = 4
    /\ Count(board, AI_PLAYER) = 4

=============================================================================
